---- MODULE Spec2Model ----
(***************************************************************************)
(* Model of the Compute API foundation of rust-openstack                   *)
(* (src/compute/base.rs): API version negotiation and the id-or-name       *)
(* lookup of flavors and servers, as implemented for Session.              *)
(*                                                                         *)
(* A Session call is one action.  The remote service is the environment:   *)
(* every response to a request of the call, and the outcome of the         *)
(* version-metadata lookup, is an input of the action.  The requests sent, *)
(* the responses received and the metadata lookups made during the call    *)
(* are logged in the state, next to the call's result.                     *)
(***************************************************************************)
EXTENDS Integers, Sequences, FiniteSets, TLC

VARIABLES service, cached_info, call, requests, responses, lookups, result

vars == <<service, cached_info, call, requests, responses, lookups, result>>

----------------------------------------------------------------------------
(* Bounds                                                                  *)

\* longest listing the service answers with
MaxList == 2
\* longest candidate list handed to pick_compute_api_version by a caller
MaxCands == 2

----------------------------------------------------------------------------
(* ApiVersion and the version constants of the module                      *)

API_VERSION_KEYPAIR_TYPE == <<2, 2>>
API_VERSION_SERVER_DESCRIPTION == <<2, 19>>
API_VERSION_KEYPAIR_PAGINATION == <<2, 35>>
API_VERSION_FLAVOR_DESCRIPTION == <<2, 55>>
API_VERSION_FLAVOR_EXTRA_SPECS == <<2, 61>>

\* the versions a service may advertise and a caller may ask for: the base
\* version 2.1 and the gated ones, all of major version 2, the only major
\* version V2 supports
Versions ==
    { <<2, 1>>, API_VERSION_KEYPAIR_TYPE, API_VERSION_SERVER_DESCRIPTION,
      API_VERSION_KEYPAIR_PAGINATION, API_VERSION_FLAVOR_DESCRIPTION,
      API_VERSION_FLAVOR_EXTRA_SPECS }

\* ApiVersion's order: major first, then minor
VersionLeq(a, b) == a[1] < b[1] \/ (a[1] = b[1] /\ a[2] <= b[2])

\* Option<T>
None == << >>
Some(v) == <<v>>

\* Result<T>
Ok(v) == [ok |-> TRUE, val |-> v]
Err(kind, msg) == [ok |-> FALSE, kind |-> kind, msg |-> msg]

----------------------------------------------------------------------------
(* The remote service's answers                                            *)

Ids == {"abc", "web-2"}
Names == {"web-1", "web-2"}
Tokens == Ids \cup Names
Actions == {"reboot", "os-stop"}
Queries == {<< >>, <<"limit">>}

\* common::protocol::IdAndName, an entry of a listing
IdAndName == [id : Ids, name : Names]
\* a fully fetched resource (protocol::Flavor, protocol::Server)
Resources == [id : Ids, name : Names, detail : {"full"}]
KeyPairs == [name : Names, fingerprint : {"fp"}]

SeqsUpTo(S, n) == UNION { [1..k -> S] : k \in 0..n }

HttpErrors ==
    { Err("ResourceNotFound", "404"), Err("InternalServerError", "500"),
      Err("AccessDenied", "403") }

FetchResponses == { Ok(r) : r \in Resources } \cup HttpErrors
ListResponses == { Ok(l) : l \in SeqsUpTo(IdAndName, MaxList) } \cup HttpErrors
DetailListResponses == { Ok(l) : l \in SeqsUpTo(Resources, 1) } \cup HttpErrors
KeyPairResponses == { Ok(k) : k \in KeyPairs } \cup HttpErrors
KeyPairListResponses == { Ok(l) : l \in SeqsUpTo(KeyPairs, 1) } \cup HttpErrors
ExtraSpecsResponses == { Ok([hw |-> "rng"]) } \cup HttpErrors
CommitResponses == { Ok("done") } \cup HttpErrors

----------------------------------------------------------------------------
(* The session: cache of the service info, and the log of one call         *)

\* the session as a call starts: nothing sent, nothing looked up
Session(cache) == [cache |-> cache, reqs |-> << >>, resps |-> << >>, looks |-> << >>]

Step(res, st) == [res |-> res, st |-> st]

\* Session::get_service_info_ref: the cached info, or one metadata lookup
\* which fills the cache when it succeeds (reachable) and fails otherwise
get_service_info_ref(st, reachable) ==
    IF st.cache # None
    THEN Step(Ok(st.cache[1]), st)
    ELSE IF reachable
         THEN Step(Ok(service),
                   [st EXCEPT !.cache = Some(service), !.looks = Append(@, "ok")])
         ELSE Step(Err("DiscoveryError", "service info unavailable"),
                   [st EXCEPT !.looks = Append(@, "failed")])

\* ServiceInfo::supports_api_version
supports_api_version(info, version) == version \in info

\* Session::get / post / delete followed by receive_json / commit: the
\* request is sent with the version it was given, the answer is the result
Request(method, path, version, query, body) ==
    [method |-> method, path |-> path, version |-> version, query |-> query,
     body |-> body]

send(st, req, resp) ==
    Step(resp, [st EXCEPT !.reqs = Append(@, req), !.resps = Append(@, resp)])

\* Iterator::max over a slice of ApiVersion: the last of the greatest
RECURSIVE IterMax(_, _)
IterMax(s, acc) ==
    IF s = << >> THEN acc
    ELSE IterMax(Tail(s),
                 IF acc = None \/ VersionLeq(acc[1], Head(s)) THEN Some(Head(s)) ELSE acc)

\* utils::one
one(items, not_found_msg, too_many_msg) ==
    IF Len(items) = 0 THEN Err("ResourceNotFound", not_found_msg)
    ELSE IF Len(items) > 1 THEN Err("TooManyItems", too_many_msg)
    ELSE Ok(items[1])

\* ResultExt::if_not_found_then
if_not_found_then(first, fallback) ==
    IF ~first.res.ok /\ first.res.kind = "ResourceNotFound" THEN fallback ELSE first

----------------------------------------------------------------------------
(* impl V2API for Session                                                  *)


\* pick_compute_api_version taking the first supported candidate, not the greatest
pick_first_supported(st, versions, reachable) ==
    LET info == get_service_info_ref(st, reachable)
        kept == SelectSeq(versions, LAMBDA item : supports_api_version(info.res.val, item))
    IN  IF ~info.res.ok THEN info
        ELSE Step(Ok(IF kept = << >> THEN None ELSE Some(Head(kept))), info.st)

\* pick_compute_api_version without the filter on what the service supports
pick_unfiltered(st, versions, reachable) ==
    LET info == get_service_info_ref(st, reachable)
    IN  IF ~info.res.ok THEN info
        ELSE Step(Ok(IterMax(versions, None)), info.st)

\* pick_compute_api_version taking a failed lookup for "nothing supported"
pick_lenient(st, versions, reachable) ==
    LET info == get_service_info_ref(st, reachable)
    IN  IF ~info.res.ok THEN Step(Ok(None), info.st)
        ELSE Step(Ok(IterMax(SelectSeq(versions,
                                       LAMBDA item : supports_api_version(info.res.val, item)),
                             None)),
                  info.st)

pick_compute_api_version(st, versions, reachable) ==
    LET info == get_service_info_ref(st, reachable)
    IN  IF ~info.res.ok THEN info
        ELSE Step(Ok(IterMax(SelectSeq(versions,
                                       LAMBDA item : supports_api_version(info.res.val, item)),
                             None)),
                  info.st)

supports_compute_api_version(st, version, reachable) ==
    LET info == get_service_info_ref(st, reachable)
    IN  IF ~info.res.ok THEN info
        ELSE Step(Ok(supports_api_version(info.res.val, version)), info.st)

supports_keypair_pagination(st, reachable) ==
    supports_compute_api_version(st, API_VERSION_KEYPAIR_PAGINATION, reachable)

flavor_api_version(st, reachable) ==
    pick_compute_api_version(
        st, <<API_VERSION_FLAVOR_DESCRIPTION, API_VERSION_FLAVOR_EXTRA_SPECS>>, reachable)

create_keypair(st, name, has_key_type, resp) ==
    LET version == IF has_key_type THEN Some(API_VERSION_KEYPAIR_TYPE) ELSE None
    IN  send(st,
             Request("POST", <<"os-keypairs">>, version, << >>,
                     <<name, IF has_key_type THEN "ssh" ELSE "">>),
             resp)

create_server(st, name, resp) ==
    send(st, Request("POST", <<"servers">>, None, << >>, <<name>>), resp)

delete_keypair(st, name, resp) ==
    send(st, Request("DELETE", <<"os-keypairs", name>>, None, << >>, << >>), resp)

delete_server(st, id, resp) ==
    send(st, Request("DELETE", <<"servers", id>>, None, << >>, << >>), resp)

get_extra_specs_by_flavor_id(st, id, resp) ==
    send(st, Request("GET", <<"flavors", id, "os-extra_specs">>, None, << >>, << >>), resp)

get_flavor_by_id(st, id, reachable, resp) ==
    LET version == flavor_api_version(st, reachable)
    IN  IF ~version.res.ok THEN version
        ELSE send(version.st,
                  Request("GET", <<"flavors", id>>, version.res.val, << >>, << >>), resp)


\* get_flavor_by_name taking the first flavor of the given name
get_flavor_by_name_first(st, name, reachable, listing, resp) ==
    LET got == send(st, Request("GET", <<"flavors">>, None, << >>, << >>), listing)
    IN  IF ~got.res.ok THEN got
        ELSE LET items == SelectSeq(got.res.val, LAMBDA item : item.name = name)
             IN  IF items = << >>
                 THEN Step(Err("ResourceNotFound", "Flavor with given name or ID not found"),
                           got.st)
                 ELSE get_flavor_by_id(got.st, items[1].id, reachable, resp)

\* get_flavor_by_name comparing the identifier, not the name, with the token
get_flavor_by_name_filter_id(st, name, reachable, listing, resp) ==
    LET got == send(st, Request("GET", <<"flavors">>, None, << >>, << >>), listing)
    IN  IF ~got.res.ok THEN got
        ELSE LET items == SelectSeq(got.res.val, LAMBDA item : item.id = name)
                 found == one(items, "Flavor with given name or ID not found",
                              "Too many flavors found with given name")
             IN  IF ~found.ok THEN Step(found, got.st)
                 ELSE get_flavor_by_id(got.st, found.val.id, reachable, resp)

\* get_flavor_by_name fetching the extra specs after the flavor
get_flavor_by_name_extra_specs(st, name, reachable, listing, resp) ==
    LET got == send(st, Request("GET", <<"flavors">>, None, << >>, << >>), listing)
    IN  IF ~got.res.ok THEN got
        ELSE LET items == SelectSeq(got.res.val, LAMBDA item : item.name = name)
                 found == one(items, "Flavor with given name or ID not found",
                              "Too many flavors found with given name")
                 flavor == get_flavor_by_id(got.st, found.val.id, reachable, resp)
             IN  IF ~found.ok THEN Step(found, got.st)
                 ELSE IF ~flavor.res.ok THEN flavor
                 ELSE Step(flavor.res,
                           get_extra_specs_by_flavor_id(flavor.st, found.val.id,
                                                        Ok([hw |-> "rng"])).st)

get_flavor_by_name(st, name, reachable, listing, resp) ==
    LET got == send(st, Request("GET", <<"flavors">>, None, << >>, << >>), listing)
    IN  IF ~got.res.ok THEN got
        ELSE LET items == SelectSeq(got.res.val, LAMBDA item : item.name = name)
                 found == one(items, "Flavor with given name or ID not found",
                              "Too many flavors found with given name")
             IN  IF ~found.ok THEN Step(found, got.st)
                 ELSE get_flavor_by_id(got.st, found.val.id, reachable, resp)


\* get_flavor falling back to the name after any error
get_flavor_or_else(st, id_or_name, reachable, resp, listing, resp2) ==
    IF get_flavor_by_id(st, id_or_name, reachable, resp).res.ok
    THEN get_flavor_by_id(st, id_or_name, reachable, resp)
    ELSE get_flavor_by_name(get_flavor_by_id(st, id_or_name, reachable, resp).st,
                            id_or_name, reachable, listing, resp2)

\* get_flavor trying the name before the identifier
get_flavor_name_first(st, id_or_name, reachable, resp, listing, resp2) ==
    if_not_found_then(get_flavor_by_name(st, id_or_name, reachable, listing, resp2),
                      get_flavor_by_id(
                          get_flavor_by_name(st, id_or_name, reachable, listing, resp2).st,
                          id_or_name, reachable, resp))

get_flavor(st, id_or_name, reachable, resp, listing, resp2) ==
    if_not_found_then(get_flavor_by_id(st, id_or_name, reachable, resp),
                      get_flavor_by_name(
                          get_flavor_by_id(st, id_or_name, reachable, resp).st,
                          id_or_name, reachable, listing, resp2))

get_keypair(st, name, reachable, resp) ==
    LET ver == pick_compute_api_version(st, <<API_VERSION_KEYPAIR_TYPE>>, reachable)
    IN  IF ~ver.res.ok THEN ver
        ELSE send(ver.st,
                  Request("GET", <<"os-keypairs", name>>, ver.res.val, << >>, << >>), resp)

get_server_by_id(st, id, reachable, resp) ==
    LET version ==
            pick_compute_api_version(st, <<API_VERSION_SERVER_DESCRIPTION>>, reachable)
    IN  IF ~version.res.ok THEN version
        ELSE send(version.st,
                  Request("GET", <<"servers", id>>, version.res.val, << >>, << >>), resp)


\* get_server_by_name returning the entry of the listing, without the fetch
get_server_by_name_summary(st, name, reachable, listing, resp) ==
    LET got == send(st, Request("GET", <<"servers">>, None, <<"name", name>>, << >>),
                    listing)
    IN  IF ~got.res.ok THEN got
        ELSE LET items == SelectSeq(got.res.val, LAMBDA item : item.name = name)
                 found == one(items, "Server with given name or ID not found",
                              "Too many servers found with given name")
             IN  Step(found, got.st)

get_server_by_name(st, name, reachable, listing, resp) ==
    LET got == send(st, Request("GET", <<"servers">>, None, <<"name", name>>, << >>),
                    listing)
    IN  IF ~got.res.ok THEN got
        ELSE LET items == SelectSeq(got.res.val, LAMBDA item : item.name = name)
                 found == one(items, "Server with given name or ID not found",
                              "Too many servers found with given name")
             IN  IF ~found.ok THEN Step(found, got.st)
                 ELSE get_server_by_id(got.st, found.val.id, reachable, resp)

get_server(st, id_or_name, reachable, resp, listing, resp2) ==
    if_not_found_then(get_server_by_id(st, id_or_name, reachable, resp),
                      get_server_by_name(
                          get_server_by_id(st, id_or_name, reachable, resp).st,
                          id_or_name, reachable, listing, resp2))

list_flavors(st, query, listing) ==
    send(st, Request("GET", <<"flavors">>, None, query, << >>), listing)

list_flavors_detail(st, query, reachable, listing) ==
    LET version ==
            pick_compute_api_version(st, <<API_VERSION_FLAVOR_EXTRA_SPECS>>, reachable)
    IN  IF ~version.res.ok THEN version
        ELSE send(version.st,
                  Request("GET", <<"flavors", "detail">>, version.res.val, query, << >>),
                  listing)

list_keypairs(st, query, reachable, listing) ==
    LET ver == pick_compute_api_version(
                   st, <<API_VERSION_KEYPAIR_TYPE, API_VERSION_KEYPAIR_PAGINATION>>,
                   reachable)
    IN  IF ~ver.res.ok THEN ver
        ELSE send(ver.st, Request("GET", <<"os-keypairs">>, ver.res.val, query, << >>),
                  listing)

list_servers(st, query, listing) ==
    send(st, Request("GET", <<"servers">>, None, query, << >>), listing)

list_servers_detail(st, query, reachable, listing) ==
    LET version ==
            pick_compute_api_version(st, <<API_VERSION_SERVER_DESCRIPTION>>, reachable)
    IN  IF ~version.res.ok THEN version
        ELSE send(version.st,
                  Request("GET", <<"servers", "detail">>, version.res.val, query, << >>),
                  listing)

server_action_with_args(st, id, action, args, resp) ==
    send(st, Request("POST", <<"servers", id, "action">>, None, << >>, <<action, args>>),
         resp)

server_simple_action(st, id, action, resp) ==
    server_action_with_args(st, id, action, "null", resp)

----------------------------------------------------------------------------
(* The calls a user of the session makes                                   *)

NoCall == [op |-> "none", token |-> "", versions |-> << >>, key_type |-> FALSE]
NoResult == [ok |-> FALSE, kind |-> "none", msg |-> ""]

Idle == call = NoCall

Op(name) == [NoCall EXCEPT !.op = name]
OpOn(name, token) == [NoCall EXCEPT !.op = name, !.token = token]

\* the call ran to its end: its result and its log become visible
Finish(c, out) ==
    /\ call' = c
    /\ result' = out.res
    /\ cached_info' = out.st.cache
    /\ requests' = out.st.reqs
    /\ responses' = out.st.resps
    /\ lookups' = out.st.looks
    /\ UNCHANGED service

Start == Session(cached_info)

Init ==
    /\ service \in SUBSET Versions
    /\ cached_info = None
    /\ call = NoCall
    /\ requests = << >>
    /\ responses = << >>
    /\ lookups = << >>
    /\ result = NoResult

CallCreateKeypair ==
    /\ Idle
    /\ \E name \in Names, has_key_type \in BOOLEAN, resp \in KeyPairResponses :
          Finish([OpOn("create_keypair", name) EXCEPT !.key_type = has_key_type],
                 create_keypair(Start, name, has_key_type, resp))

CallCreateServer ==
    /\ Idle
    /\ \E name \in Names, resp \in FetchResponses :
          Finish(OpOn("create_server", name), create_server(Start, name, resp))

CallDeleteKeypair ==
    /\ Idle
    /\ \E name \in Names, resp \in CommitResponses :
          Finish(OpOn("delete_keypair", name), delete_keypair(Start, name, resp))

CallDeleteServer ==
    /\ Idle
    /\ \E id \in Ids, resp \in CommitResponses :
          Finish(OpOn("delete_server", id), delete_server(Start, id, resp))

CallGetExtraSpecsByFlavorId ==
    /\ Idle
    /\ \E id \in Ids, resp \in ExtraSpecsResponses :
          Finish(OpOn("get_extra_specs_by_flavor_id", id),
                 get_extra_specs_by_flavor_id(Start, id, resp))

CallGetFlavor ==
    /\ Idle
    /\ \E token \in Tokens, reachable \in BOOLEAN, resp \in FetchResponses,
          listing \in ListResponses, resp2 \in FetchResponses :
          Finish(OpOn("get_flavor", token),
                 get_flavor(Start, token, reachable, resp, listing, resp2))

CallGetFlavorById ==
    /\ Idle
    /\ \E id \in Tokens, reachable \in BOOLEAN, resp \in FetchResponses :
          Finish(OpOn("get_flavor_by_id", id),
                 get_flavor_by_id(Start, id, reachable, resp))

CallGetFlavorByName ==
    /\ Idle
    /\ \E name \in Tokens, reachable \in BOOLEAN, listing \in ListResponses,
          resp \in FetchResponses :
          Finish(OpOn("get_flavor_by_name", name),
                 get_flavor_by_name(Start, name, reachable, listing, resp))

CallGetKeypair ==
    /\ Idle
    /\ \E name \in Names, reachable \in BOOLEAN, resp \in KeyPairResponses :
          Finish(OpOn("get_keypair", name), get_keypair(Start, name, reachable, resp))

CallGetServer ==
    /\ Idle
    /\ \E token \in Tokens, reachable \in BOOLEAN, resp \in FetchResponses,
          listing \in ListResponses, resp2 \in FetchResponses :
          Finish(OpOn("get_server", token),
                 get_server(Start, token, reachable, resp, listing, resp2))

CallGetServerById ==
    /\ Idle
    /\ \E id \in Tokens, reachable \in BOOLEAN, resp \in FetchResponses :
          Finish(OpOn("get_server_by_id", id),
                 get_server_by_id(Start, id, reachable, resp))

CallGetServerByName ==
    /\ Idle
    /\ \E name \in Tokens, reachable \in BOOLEAN, listing \in ListResponses,
          resp \in FetchResponses :
          Finish(OpOn("get_server_by_name", name),
                 get_server_by_name(Start, name, reachable, listing, resp))

CallListFlavors ==
    /\ Idle
    /\ \E query \in Queries, listing \in ListResponses :
          Finish(Op("list_flavors"), list_flavors(Start, query, listing))

CallListFlavorsDetail ==
    /\ Idle
    /\ \E query \in Queries, reachable \in BOOLEAN, listing \in DetailListResponses :
          Finish(Op("list_flavors_detail"),
                 list_flavors_detail(Start, query, reachable, listing))

CallListKeypairs ==
    /\ Idle
    /\ \E query \in Queries, reachable \in BOOLEAN, listing \in KeyPairListResponses :
          Finish(Op("list_keypairs"), list_keypairs(Start, query, reachable, listing))

CallListServers ==
    /\ Idle
    /\ \E query \in Queries, listing \in ListResponses :
          Finish(Op("list_servers"), list_servers(Start, query, listing))

CallListServersDetail ==
    /\ Idle
    /\ \E query \in Queries, reachable \in BOOLEAN, listing \in DetailListResponses :
          Finish(Op("list_servers_detail"),
                 list_servers_detail(Start, query, reachable, listing))

CallPickComputeApiVersion ==
    /\ Idle
    /\ \E versions \in SeqsUpTo(Versions, MaxCands), reachable \in BOOLEAN :
          Finish([Op("pick_compute_api_version") EXCEPT !.versions = versions],
                 pick_compute_api_version(Start, versions, reachable))

CallServerActionWithArgs ==
    /\ Idle
    /\ \E id \in Ids, action \in Actions, args \in {"null", "hard"},
          resp \in CommitResponses :
          Finish(OpOn("server_action_with_args", id),
                 server_action_with_args(Start, id, action, args, resp))

CallServerSimpleAction ==
    /\ Idle
    /\ \E id \in Ids, action \in Actions, resp \in CommitResponses :
          Finish(OpOn("server_simple_action", id),
                 server_simple_action(Start, id, action, resp))

CallSupportsComputeApiVersion ==
    /\ Idle
    /\ \E version \in Versions, reachable \in BOOLEAN :
          Finish([Op("supports_compute_api_version") EXCEPT !.versions = <<version>>],
                 supports_compute_api_version(Start, version, reachable))

CallSupportsKeypairPagination ==
    /\ Idle
    /\ \E reachable \in BOOLEAN :
          Finish(Op("supports_keypair_pagination"),
                 supports_keypair_pagination(Start, reachable))

\* the caller takes the result; the session keeps only its cached service info
Return ==
    /\ ~Idle
    /\ call' = NoCall
    /\ result' = NoResult
    /\ requests' = << >>
    /\ responses' = << >>
    /\ lookups' = << >>
    /\ UNCHANGED <<service, cached_info>>

Next ==
    \/ CallCreateKeypair
    \/ CallCreateServer
    \/ CallDeleteKeypair
    \/ CallDeleteServer
    \/ CallGetExtraSpecsByFlavorId
    \/ CallGetFlavor
    \/ CallGetFlavorById
    \/ CallGetFlavorByName
    \/ CallGetKeypair
    \/ CallGetServer
    \/ CallGetServerById
    \/ CallGetServerByName
    \/ CallListFlavors
    \/ CallListFlavorsDetail
    \/ CallListKeypairs
    \/ CallListServers
    \/ CallListServersDetail
    \/ CallPickComputeApiVersion
    \/ CallServerActionWithArgs
    \/ CallServerSimpleAction
    \/ CallSupportsComputeApiVersion
    \/ CallSupportsKeypairPagination
    \/ Return

Spec == Init /\ [][Next]_vars

----------------------------------------------------------------------------
(* Properties                                                              *)

Resolving == call.op \in {"get_flavor", "get_server"}
Collection == IF call.op = "get_flavor" THEN "flavors" ELSE "servers"
NotFoundMsg ==
    IF call.op = "get_flavor" THEN "Flavor with given name or ID not found"
    ELSE "Server with given name or ID not found"
TooManyMsg ==
    IF call.op = "get_flavor" THEN "Too many flavors found with given name"
    ELSE "Too many servers found with given name"

IsNotFound(r) == ~r.ok /\ r.kind = "ResourceNotFound"

\* the direct fetch by the token answered not-found and the listing was received
FellBack ==
    /\ Resolving
    /\ Len(responses) >= 2
    /\ IsNotFound(responses[1])
    /\ responses[2].ok

\* the positions of the listing whose name is the token
Matching == { i \in DOMAIN responses[2].val : responses[2].val[i].name = call.token }

\* the session looked the service info up, now or in an earlier call
Discovered == cached_info = Some(service)

Candidates == { call.versions[i] : i \in DOMAIN call.versions }

\* the greatest element of a non-empty set of versions
Greatest(S) == CHOOSE v \in S : \A w \in S : VersionLeq(w, v)

\* the candidates each negotiating operation passes to pick_compute_api_version
Negotiated ==
    [get_keypair |-> {API_VERSION_KEYPAIR_TYPE},
     get_flavor_by_id |-> {API_VERSION_FLAVOR_DESCRIPTION, API_VERSION_FLAVOR_EXTRA_SPECS},
     get_server_by_id |-> {API_VERSION_SERVER_DESCRIPTION},
     list_keypairs |-> {API_VERSION_KEYPAIR_TYPE, API_VERSION_KEYPAIR_PAGINATION},
     list_flavors_detail |-> {API_VERSION_FLAVOR_EXTRA_SPECS},
     list_servers_detail |-> {API_VERSION_SERVER_DESCRIPTION}]

Negotiating == call.op \in DOMAIN Negotiated

\* C1: when the service info is available and at least one candidate is
\* supported, pick_compute_api_version returns Some(v), v the greatest (major,
\* minor) of the supported candidates whatever their order in the list; the
\* flavor fetch, which passes [2.55, 2.61], is sent with the greatest supported
\* of these two.
C1_PickGreatestSupported ==
    /\ (/\ call.op = "pick_compute_api_version"
        /\ Discovered
        /\ Candidates \cap service # {})
       => (result.ok /\ result.val = Some(Greatest(Candidates \cap service)))
    /\ (/\ call.op = "get_flavor_by_id"
        /\ Negotiated.get_flavor_by_id \cap service # {}
        /\ requests # << >>)
       => requests[1].version = Some(Greatest(Negotiated.get_flavor_by_id \cap service))

\* C1 witness: the scenario supported {2.1, 2.19, 2.55}, candidates [2.19, 2.61]
C1_Witness ==
    /\ call.op = "pick_compute_api_version"
    /\ service = {<<2, 1>>, <<2, 19>>, <<2, 55>>}
    /\ call.versions = <<API_VERSION_SERVER_DESCRIPTION, API_VERSION_FLAVOR_EXTRA_SPECS>>
    /\ result = Ok(Some(<<2, 19>>))

\* C2: every request sent by any operation carries either no API version or a
\* version of the service's supported set.
C2_AttachedVersionSupported ==
    \A i \in DOMAIN requests :
        requests[i].version = None \/ requests[i].version[1] \in service

\* C3: in get_flavor and get_server, when the direct fetch fails with an error
\* other than not-found (an HTTP error of the fetch, or the failure of the
\* version lookup before it), the call returns that error and sends no listing.
C3_OtherErrorsPropagate ==
    /\ (/\ Resolving
        /\ responses # << >>
        /\ ~responses[1].ok
        /\ ~IsNotFound(responses[1]))
       => (result = responses[1] /\ Len(requests) = 1)
    /\ (Resolving /\ lookups = <<"failed">>)
       => (~result.ok /\ result.kind = "DiscoveryError" /\ requests = << >>)

\* C3 witness: the fetch of "abc" answers 500
C3_Witness ==
    /\ Resolving
    /\ call.token = "abc"
    /\ responses = <<Err("InternalServerError", "500")>>
    /\ result = Err("InternalServerError", "500")

\* C4: when the direct fetch answers not-found and two or more entries of the
\* listing, in any order, carry the token as name, the call fails with the
\* too-many error and nothing is sent after the listing.
C4_AmbiguousNameFails ==
    (FellBack /\ Cardinality(Matching) >= 2)
       => /\ result = Err("TooManyItems", TooManyMsg)
          /\ Len(requests) = 2
          /\ requests[2].path = <<Collection>>

\* C4 witness: two resources with distinct identifiers share the name
C4_Witness ==
    /\ FellBack
    /\ call.token = "web-1"
    /\ Len(responses[2].val) = 2
    /\ Matching = {1, 2}
    /\ responses[2].val[1].id # responses[2].val[2].id
    /\ ~result.ok
    /\ result.kind = "TooManyItems"

\* C5: when the direct fetch answers not-found and exactly one entry of the
\* listing carries the token as name, the call sends one more request, the
\* fetch of that entry's identifier, and returns what that fetch answers.
C5_UniqueNameIsFetched ==
    (FellBack /\ Cardinality(Matching) = 1)
       => /\ Len(requests) = 3
          /\ requests[3].method = "GET"
          /\ requests[3].path = <<Collection, responses[2].val[CHOOSE i \in Matching : TRUE].id>>
          /\ result = responses[3]

\* C5 witness: entries "web-1" and "web-2" listed, token "web-1", resource fetched
C5_Witness ==
    /\ FellBack
    /\ call.token = "web-1"
    /\ responses[2].val = <<[id |-> "abc", name |-> "web-1"], [id |-> "web-2", name |-> "web-2"]>>
    /\ Len(requests) = 3
    /\ requests[3].path = <<Collection, "abc">>
    /\ result = Ok([id |-> "abc", name |-> "web-1", detail |-> "full"])

\* C6: when the direct fetch answers not-found and no entry of the listing
\* carries the token as name, the call fails with the not-found error "...
\* with given name or ID not found".
C6_NoMatchIsNotFound ==
    (FellBack /\ Matching = {})
       => /\ result = Err("ResourceNotFound", NotFoundMsg)
          /\ Len(requests) = 2

\* C6 witness: a non-empty listing without the token
C6_Witness ==
    /\ FellBack
    /\ responses[2].val # << >>
    /\ Matching = {}
    /\ result = Err("ResourceNotFound", NotFoundMsg)

\* C7: when the first request of get_flavor or get_server is answered with
\* success, that request is the direct fetch by the token, it is the only
\* request of the call (no listing), and the fetched resource is the result.
C7_DirectHitSkipsListing ==
    (Resolving /\ responses # << >> /\ responses[1].ok)
       => /\ Len(requests) = 1
          /\ requests[1].path = <<Collection, call.token>>
          /\ result = responses[1]

\* C7 witness: the token is an identifier and also the name of a resource
C7_Witness ==
    /\ Resolving
    /\ call.token = "web-2"
    /\ Len(requests) = 1
    /\ requests[1].path = <<Collection, "web-2">>
    /\ result = Ok([id |-> "web-2", name |-> "web-1", detail |-> "full"])

\* C8 as stated: no call sends more than two requests.
C8_AtMostTwoRequests == Len(requests) <= 2

\* C8 amended: a call sends at most three requests (get_flavor and get_server:
\* fetch, listing, fetch), at most two in the by-name lookups and at most one
\* in every other operation, and looks the service info up at most once.
C8_AtMostThreeRequests ==
    /\ Len(requests) <= 3
    /\ call.op \in {"get_flavor_by_name", "get_server_by_name"} => Len(requests) <= 2
    /\ ~Resolving /\ call.op \notin {"get_flavor_by_name", "get_server_by_name"}
          => Len(requests) <= 1
    /\ call.op \in {"pick_compute_api_version", "supports_compute_api_version",
                     "supports_keypair_pagination"} => requests = << >>
    /\ Len(lookups) <= 1

\* C8 witness: the name fallback with one match
C8_Witness ==
    /\ Resolving
    /\ Len(requests) = 3
    /\ requests[1].path = <<Collection, call.token>>
    /\ requests[2].path = <<Collection>>
    /\ Len(requests[3].path) = 2

\* C9: when the service info is available and no candidate is supported (the
\* empty list included), pick_compute_api_version returns Ok(None), and the
\* request of an operation negotiating such candidates is sent with no version.
C9_NoneSupportedIsNoConstraint ==
    /\ (/\ call.op = "pick_compute_api_version"
        /\ Discovered
        /\ Candidates \cap service = {})
       => result = Ok(None)
    /\ (/\ Negotiating
        /\ Discovered
        /\ Negotiated[call.op] \cap service = {})
       => (Len(requests) = 1 /\ requests[1].version = None)

\* C9 witness: a candidate the service does not support
C9_Witness ==
    /\ call.op = "pick_compute_api_version"
    /\ call.versions = <<API_VERSION_FLAVOR_EXTRA_SPECS>>
    /\ service = {<<2, 1>>}
    /\ result = Ok(None)

\* C10: when the lookup of the service info fails, pick_compute_api_version
\* and supports_compute_api_version return the lookup's error, and every
\* operation negotiating a version fails with it and sends nothing.
C10_DiscoveryErrorPropagates ==
    (/\ \/ Negotiating
        \/ call.op \in {"pick_compute_api_version", "supports_compute_api_version",
                         "supports_keypair_pagination"}
     /\ lookups = <<"failed">>)
       => /\ result = Err("DiscoveryError", "service info unavailable")
          /\ requests = << >>
          /\ cached_info = None

\* C10 witness: the flavor fetch with the service info out of reach
C10_Witness ==
    /\ call.op = "get_flavor_by_id"
    /\ lookups = <<"failed">>
    /\ ~result.ok
    /\ requests = << >>

====
